---- MODULE Spec2Model ----
(***************************************************************************)
(* The hash-chained audit log of OR1ON: AuditTrail (audit_system.py) and   *)
(* the standalone chain verifier (verify-chain.py).                        *)
(*                                                                         *)
(* Digests.  sha256 over json.dumps(..., sort_keys=True) is modelled as an *)
(* injective function of the serialised dictionary: a digest is the tuple  *)
(* of the dictionary's values in key order, so two digests are equal       *)
(* exactly when the serialised dictionaries are equal.  A dictionary with  *)
(* the extra key "prev_hash" is a longer tuple than one without it.        *)
(* Python indices are kept 0-based; sequences are accessed at index + 1.   *)
(***************************************************************************)
EXTENDS Integers, Sequences, FiniteSets, TLC

VARIABLES
    audit_log,        \* AuditTrail.audit_log: list of entry dicts
    event_index,      \* AuditTrail.event_index: event type -> list of event ids
    chain_integrity,  \* AuditTrail.chain_integrity: list of {event_id, timestamp, hash}
    now,              \* the last value datetime.utcnow() returned
    ret,              \* the last operation and the value it returned
    tampered,         \* the (index, field) pairs of entries changed behind the store's back
    pc,               \* per caller of log_event: the statement it is about to run
    loc,              \* per caller of log_event: its local variables
    vfile,            \* the verifier's input file: missing, invalid JSON or a JSON object
    vmut,             \* how the input file differs from a well-linked export
    vpc,              \* the verifier process: the statement it is about to run
    vlog,             \* AuditChainVerifier.audit_log
    vi,               \* verify_chain: the loop index i
    verified,         \* verify_chain: the local variable verified
    vout,             \* verify_chain: the per-entry lines printed so far
    verr,             \* the exception the verifier raised, if any, and where
    exit_code,        \* the exit code of the verifier process (-1 while it runs)
    access_log,       \* PublicAuditInterface.access_log
    short_term,       \* MemoryKernel.memory_store["short_term"]: list of entries
    long_term,        \* MemoryKernel.memory_store["long_term"]: id -> entry
    resonance_map     \* MemoryKernel.memory_store["resonance_map"]: id -> score

avars == <<audit_log, event_index, chain_integrity, now, ret, tampered>>
cvars == <<pc, loc>>
vvars == <<vfile, vmut, vpc, vlog, vi, verified, vout, verr, exit_code>>
xvars == <<access_log, short_term, long_term, resonance_map>>
vars == <<avars, cvars, vvars, xvars>>

----------------------------------------------------------------------------
(* Bounds of the model *)

MaxLog == 3
MaxTime == 1
MaxEntries == 3

\* The size limit of PublicAuditInterface.access_log, 10000 in the source,
\* scaled down so that a few calls reach it.
MaxAccessLog == 2

----------------------------------------------------------------------------
(* Values *)

\* Python's None for an Optional value: the empty tuple; a present value x is <<x>>.
None == <<>>

Some(x) == <<x>>

\* AuditEventType members the model draws from (the enum's .value strings).
SYSTEM_INIT == "system_initialization"

ETHICAL_DECISION == "ethical_decision"

PROOF_VERIFICATION == "proof_verification"

Times == 0..MaxTime

\* The arguments of the log_event calls the model makes:
\* (event_type, description, actor, metadata, sensitivity).
\* metadata None stands for the omitted argument, <<"k">> for a non-empty dict.
Calls ==
    { <<SYSTEM_INIT, "d1", "a1", None, "public">>,
      <<SYSTEM_INIT, "d1", "a1", <<"k">>, "public">>,
      <<ETHICAL_DECISION, "d2", "a2", <<"k">>, "internal">>,
      <<ETHICAL_DECISION, "d1", "a1", None, "public">>,
      <<PROOF_VERIFICATION, "d2", "a1", None, "restricted">>,
      <<PROOF_VERIFICATION, "d1", "a2", None, "public">> }

----------------------------------------------------------------------------
(* AuditTrail: helpers *)

\* sha256(f"{timestamp}:{count}")[:16], count = len(self.audit_log)
_generate_event_id(log, timestamp) == <<timestamp, Len(log)>>

\* A digest that covers the metadata as well.
_compute_chain_hash_with_metadata(log, entry, prev_index) ==
    LET entry_data == <<entry.event_id, entry.timestamp,
                        entry.event_type, entry.description, entry.metadata>>
    IN  IF prev_index # None /\ prev_index[1] >= 0
        THEN Append(entry_data, log[prev_index[1] + 1].chain_hash)
        ELSE entry_data

\* A digest that leaves the description out of entry_data.
_compute_chain_hash_no_description(log, entry, prev_index) ==
    LET entry_data == <<entry.event_id, entry.timestamp, entry.event_type>>
    IN  IF prev_index # None /\ prev_index[1] >= 0
        THEN Append(entry_data, log[prev_index[1] + 1].chain_hash)
        ELSE entry_data

\* The digest of entry_data: event_id, timestamp, event_type, description and,
\* only if prev_index is given and >= 0, the chain_hash stored at prev_index.
_compute_chain_hash(log, entry, prev_index) ==
    LET entry_data == <<entry.event_id, entry.timestamp,
                        entry.event_type, entry.description>>
    IN  IF prev_index # None /\ prev_index[1] >= 0
        THEN Append(entry_data, log[prev_index[1] + 1].chain_hash)
        ELSE entry_data

\* event_index[type_key].append(event_id), creating the list when missing
_index_event(index, event_id, event_type) ==
    IF event_type \in DOMAIN index
    THEN [index EXCEPT ![event_type] = Append(@, event_id)]
    ELSE [k \in DOMAIN index \cup {event_type} |->
            IF k = event_type THEN <<event_id>> ELSE index[k]]

\* A chain update that keeps the newest record only (assignment for append).
_update_integrity_chain_keep_last(chain, entry) ==
    <<[event_id |-> entry.event_id,
       timestamp |-> entry.timestamp,
       hash |-> entry.chain_hash]>>

\* chain_integrity.append({event_id, timestamp, hash})
_update_integrity_chain(chain, entry) ==
    Append(chain, [event_id |-> entry.event_id,
                   timestamp |-> entry.timestamp,
                   hash |-> entry.chain_hash])

\* The entry dict log_event builds, before its chain_hash is assigned.
\* metadata or {}: an omitted metadata is stored as the empty dict.
NewEntry(event_id, timestamp, call) ==
    [event_id |-> event_id,
     timestamp |-> timestamp,
     event_type |-> call[1],
     description |-> call[2],
     actor |-> call[3],
     metadata |-> IF call[4] = None THEN <<>> ELSE call[4],
     sensitivity |-> call[5],
     chain_hash |-> None]

\* audit_entry["chain_hash"] = self._compute_chain_hash(audit_entry):
\* log_event passes no prev_index, so prev_index takes its default None.
StampedEntry(log, entry) ==
    [entry EXCEPT !.chain_hash = _compute_chain_hash(log, entry, None)]

\* A verifier loop that hands the genesis entry the previous index 0
\* (max(i - 1, 0)) instead of None.
RECURSIVE VerifyFrom_genesis_prev(_, _)
VerifyFrom_genesis_prev(log, i) ==
    IF i >= Len(log) THEN <<>>
    ELSE LET entry == log[i + 1]
             expected_hash ==
                 _compute_chain_hash(log, entry, IF i > 0 THEN Some(i - 1) ELSE Some(0))
         IN  IF entry.chain_hash # expected_hash
             THEN <<[event_id |-> entry.event_id, issue |-> "Chain hash mismatch"]>>
                    \o VerifyFrom_genesis_prev(log, i + 1)
             ELSE VerifyFrom_genesis_prev(log, i + 1)

\* A verifier loop that leaves at the first mismatch (break after append).
VerifyFrom_stop_first(log, i) ==
    IF \E k \in i..(Len(log) - 1) :
          log[k + 1].chain_hash
             # _compute_chain_hash(log, log[k + 1], IF k > 0 THEN Some(k - 1) ELSE None)
    THEN LET first == CHOOSE k \in i..(Len(log) - 1) :
                 /\ log[k + 1].chain_hash
                      # _compute_chain_hash(log, log[k + 1], IF k > 0 THEN Some(k - 1) ELSE None)
                 /\ \A j \in i..(k - 1) :
                      log[j + 1].chain_hash
                        = _compute_chain_hash(log, log[j + 1], IF j > 0 THEN Some(j - 1) ELSE None)
         IN  <<[event_id |-> log[first + 1].event_id, issue |-> "Chain hash mismatch"]>>
    ELSE <<>>

\* The loop of verify_integrity from index i on: one issue per entry whose
\* stored chain_hash differs from the recomputed one.
RECURSIVE VerifyFrom(_, _)
VerifyFrom(log, i) ==
    IF i >= Len(log) THEN <<>>
    ELSE LET entry == log[i + 1]
             expected_hash ==
                 _compute_chain_hash(log, entry, IF i > 0 THEN Some(i - 1) ELSE None)
         IN  IF entry.chain_hash # expected_hash
             THEN <<[event_id |-> entry.event_id, issue |-> "Chain hash mismatch"]>>
                    \o VerifyFrom(log, i + 1)
             ELSE VerifyFrom(log, i + 1)

verify_integrity(log) ==
    LET issues == VerifyFrom(log, 0)
    IN  [total_events |-> Len(log),
         integrity_verified |-> (issues = <<>>),
         issues |-> issues]

\* The empty string, the least of all strings: as a time bound it is below
\* every timestamp.  Timestamps are numbers ordered as their ISO strings are.
EmptyStr == -1

\* Python's truth value of an Optional[str]: None and "" are false.
Truthy(s) == s # None /\ s[1] # EmptyStr

\* A filter step that does not apply the actor filter.
FilterBy_no_actor(results, filters, key) ==
    IF key \in DOMAIN filters /\ key # "actor"
    THEN LET Keep(e) == e[key] = filters[key]
         IN  SelectSeq(results, Keep)
    ELSE results

\* [e for e in results if e[key] == filters[key]], when key is in filters
FilterBy(results, filters, key) ==
    IF key \in DOMAIN filters
    THEN LET Keep(e) == e[key] = filters[key]
         IN  SelectSeq(results, Keep)
    ELSE results

\* query_events: a copy of the list, narrowed by each filter present in a
\* non-empty filters dict, then by each time bound that is truthy.
query_events(log, filters, start_time, end_time) ==
    LET r0 == log
        r3 == IF filters # <<>>
              THEN FilterBy(FilterBy(FilterBy(r0, filters, "event_type"),
                                     filters, "actor"),
                            filters, "sensitivity")
              ELSE r0
        FromStart(e) == e.timestamp >= start_time[1]
        r4 == IF Truthy(start_time) THEN SelectSeq(r3, FromStart) ELSE r3
        ToEnd(e) == e.timestamp <= end_time[1]
        r5 == IF Truthy(end_time) THEN SelectSeq(r4, ToEnd) ELSE r4
    IN  r5

\* The public view of one entry: five of its fields.
PublicEvent(e) ==
    [event_id |-> e.event_id,
     timestamp |-> e.timestamp,
     event_type |-> e.event_type,
     description |-> e.description,
     actor |-> e.actor]

\* An export that leaves out only the restricted entries.
RECURSIVE PublicEventsFrom_not_restricted(_, _)
PublicEventsFrom_not_restricted(log, i) ==
    IF i >= Len(log) THEN <<>>
    ELSE IF log[i + 1].sensitivity # "restricted"
         THEN <<PublicEvent(log[i + 1])>> \o PublicEventsFrom_not_restricted(log, i + 1)
         ELSE PublicEventsFrom_not_restricted(log, i + 1)

\* The list comprehension of export_public_audit_data from index i on.
RECURSIVE PublicEventsFrom(_, _)
PublicEventsFrom(log, i) ==
    IF i >= Len(log) THEN <<>>
    ELSE IF log[i + 1].sensitivity = "public"
         THEN <<PublicEvent(log[i + 1])>> \o PublicEventsFrom(log, i + 1)
         ELSE PublicEventsFrom(log, i + 1)

export_public_audit_data(log) ==
    LET public_events == PublicEventsFrom(log, 0)
    IN  [version |-> "1.0.0",
         total_public_events |-> Len(public_events),
         events |-> public_events,
         integrity_status |-> verify_integrity(log)]

\* A count that is set to 1 at every occurrence (event_types[event_type] = 1).
CountType_set_one(event_types, event_type) ==
    [k \in DOMAIN event_types \cup {event_type} |->
        IF k = event_type THEN 1 ELSE event_types[k]]

\* event_types[event_type] = event_types.get(event_type, 0) + 1
CountType(event_types, event_type) ==
    IF event_type \in DOMAIN event_types
    THEN [event_types EXCEPT ![event_type] = @ + 1]
    ELSE [k \in DOMAIN event_types \cup {event_type} |->
            IF k = event_type THEN 1 ELSE event_types[k]]

\* The counting loop of get_statistics from index i on.
RECURSIVE EventTypesFrom(_, _, _)
EventTypesFrom(log, i, event_types) ==
    IF i >= Len(log) THEN event_types
    ELSE EventTypesFrom(log, i + 1, CountType(event_types, log[i + 1].event_type))

RECURSIVE PublicCountFrom(_, _)
PublicCountFrom(log, i) ==
    IF i >= Len(log) THEN 0
    ELSE (IF log[i + 1].sensitivity = "public" THEN 1 ELSE 0)
            + PublicCountFrom(log, i + 1)

get_statistics(log, chain) ==
    [total_events |-> Len(log),
     event_types |-> EventTypesFrom(log, 0, <<>>),
     public_events |-> PublicCountFrom(log, 0),
     chain_length |-> Len(chain),
     oldest_event |-> IF log # <<>> THEN Some(log[1].timestamp) ELSE None,
     newest_event |-> IF log # <<>> THEN Some(log[Len(log)].timestamp) ELSE None]

----------------------------------------------------------------------------
(* AuditTrail: the state after __init__ and the operations *)

Callers == {1, 2}

NoError == [exc |-> "", at |-> ""]

IdleCallers ==
    /\ pc = [p \in Callers |-> "idle"]
    /\ loc = [p \in Callers |-> None]

IdleVerifier ==
    /\ vfile = [kind |-> "missing", data |-> <<>>]
    /\ vmut = [kind |-> "none", index |-> 0]
    /\ vpc = "off"
    /\ vlog = <<>>
    /\ vi = 0
    /\ verified = TRUE
    /\ vout = <<>>
    /\ verr = NoError
    /\ exit_code = -1

\* PublicAuditInterface.__init__ and MemoryKernel.__init__
InitKernels ==
    /\ access_log = <<>>
    /\ short_term = <<>>
    /\ long_term = <<>>
    /\ resonance_map = <<>>

\* AuditTrail.__init__
InitTrail ==
    /\ audit_log = <<>>
    /\ event_index = <<>>
    /\ chain_integrity = <<>>
    /\ now = 0
    /\ ret = [op |-> "init", value |-> None]
    /\ tampered = {}

\* A log_event that puts the new entry first (insert(0, ...)) instead of last.
LogEventOf_prepend(calls) ==
    /\ Len(audit_log) < MaxLog
    /\ \E call \in calls, t1 \in now..MaxTime :
         \E t2 \in t1..MaxTime :
           LET event_id == _generate_event_id(audit_log, t1)
               audit_entry == StampedEntry(audit_log, NewEntry(event_id, t2, call))
           IN  /\ audit_log' = <<audit_entry>> \o audit_log
               /\ event_index' = _index_event(event_index, event_id, call[1])
               /\ chain_integrity' = _update_integrity_chain(chain_integrity, audit_entry)
               /\ now' = t2
               /\ ret' = [op |-> "log_event", value |-> event_id]
    /\ UNCHANGED <<tampered, cvars, vvars, xvars>>

\* log_event run to completion by one caller.  datetime.utcnow() is read
\* twice: t1 by _generate_event_id, t2 for the entry's timestamp.
LogEventOf(calls) ==
    /\ Len(audit_log) < MaxLog
    /\ \E call \in calls, t1 \in now..MaxTime :
         \E t2 \in t1..MaxTime :
           LET event_id == _generate_event_id(audit_log, t1)
               audit_entry == StampedEntry(audit_log, NewEntry(event_id, t2, call))
           IN  /\ audit_log' = Append(audit_log, audit_entry)
               /\ event_index' = _index_event(event_index, event_id, call[1])
               /\ chain_integrity' = _update_integrity_chain(chain_integrity, audit_entry)
               /\ now' = t2
               /\ ret' = [op |-> "log_event", value |-> event_id]
    /\ UNCHANGED <<tampered, cvars, vvars, xvars>>

LogEvent == LogEventOf(Calls)

VerifyIntegrity ==
    /\ ret' = [op |-> "verify_integrity", value |-> verify_integrity(audit_log)]
    /\ UNCHANGED <<audit_log, event_index, chain_integrity, now, tampered, cvars, vvars, xvars>>

ExportPublicAuditData ==
    /\ ret' = [op |-> "export_public_audit_data",
               value |-> export_public_audit_data(audit_log)]
    /\ UNCHANGED <<audit_log, event_index, chain_integrity, now, tampered, cvars, vvars, xvars>>

GetStatistics ==
    /\ ret' = [op |-> "get_statistics",
               value |-> get_statistics(audit_log, chain_integrity)]
    /\ UNCHANGED <<audit_log, event_index, chain_integrity, now, tampered, cvars, vvars, xvars>>

\* The filters arguments of the query_events calls the model makes; the
\* empty dict stands for None as well (both are false to "if filters:").
\* "category" is a key query_events does not know.
FilterDicts ==
    { <<>>,
      [event_type |-> ETHICAL_DECISION],
      [actor |-> "a1"],
      [sensitivity |-> "public"],
      [event_type |-> SYSTEM_INIT, actor |-> "a1", sensitivity |-> "public"],
      [event_type |-> PROOF_VERIFICATION, actor |-> "a2"],
      [category |-> "x"],
      [actor |-> "a2", category |-> "x"] }

\* The start_time and end_time arguments: None, "" or a timestamp.
TimeBounds == {None, Some(EmptyStr)} \cup {Some(t) : t \in Times}

\* The (filters, start_time, end_time) of the query_events calls the model
\* makes: every filters dict without time bounds, every pair of time bounds
\* without filters, and one filter together with every pair of timestamps.
QueryArgs ==
    {<<f, None, None>> : f \in FilterDicts}
    \cup {<<<<>>, s, e>> : s \in TimeBounds, e \in TimeBounds}
    \cup {<<[actor |-> "a1"], Some(s), Some(e)>> : s \in Times, e \in Times}

\* A query that hands out the store's own list when no filter rebuilt it
\* (results = self.audit_log, without the copy).
ResultIsStore_no_copy(filters, start_time, end_time) ==
    filters = <<>> /\ ~Truthy(start_time) /\ ~Truthy(end_time)

\* Whether the returned list is the store's own list object: never, results
\* starts as self.audit_log.copy() and every filter builds a new list.
ResultIsStore(filters, start_time, end_time) == FALSE

QueryEvents ==
    /\ \E args \in QueryArgs :
         LET filters == args[1]
             start_time == args[2]
             end_time == args[3]
         IN
         ret' = [op |-> "query_events",
                 filters |-> filters,
                 start_time |-> start_time,
                 end_time |-> end_time,
                 value |-> query_events(audit_log, filters, start_time, end_time),
                 is_store |-> ResultIsStore(filters, start_time, end_time)]
    /\ UNCHANGED <<audit_log, event_index, chain_integrity, now, tampered, cvars, vvars, xvars>>

Init == InitTrail /\ IdleCallers /\ IdleVerifier /\ InitKernels

Next == LogEvent \/ VerifyIntegrity

Spec == Init /\ [][Next]_vars

----------------------------------------------------------------------------
(* An entry of the stored list changed in place by something other than    *)
(* AuditTrail: one field of one entry, nothing recomputed.                 *)

Fields == {"event_id", "timestamp", "event_type", "description",
           "actor", "metadata", "sensitivity"}

HashedFields == {"event_id", "timestamp", "event_type", "description"}

FieldValues(field) ==
    CASE field = "event_id" -> {<<0, 0>>, <<0, 1>>}
      [] field = "timestamp" -> Times
      [] field = "event_type" -> {SYSTEM_INIT, ETHICAL_DECISION, PROOF_VERIFICATION}
      [] field = "description" -> {"d1", "d2"}
      [] field = "actor" -> {"a1", "a2"}
      [] field = "metadata" -> {<<>>, <<"k">>}
      [] field = "sensitivity" -> {"public", "internal"}

SetField(entry, field, value) ==
    CASE field = "event_id" -> [entry EXCEPT !.event_id = value]
      [] field = "timestamp" -> [entry EXCEPT !.timestamp = value]
      [] field = "event_type" -> [entry EXCEPT !.event_type = value]
      [] field = "description" -> [entry EXCEPT !.description = value]
      [] field = "actor" -> [entry EXCEPT !.actor = value]
      [] field = "metadata" -> [entry EXCEPT !.metadata = value]
      [] field = "sensitivity" -> [entry EXCEPT !.sensitivity = value]

GetField(entry, field) ==
    CASE field = "event_id" -> entry.event_id
      [] field = "timestamp" -> entry.timestamp
      [] field = "event_type" -> entry.event_type
      [] field = "description" -> entry.description
      [] field = "actor" -> entry.actor
      [] field = "metadata" -> entry.metadata
      [] field = "sensitivity" -> entry.sensitivity

Tamper ==
    /\ tampered = {}
    /\ \E i \in 0..(Len(audit_log) - 1), field \in Fields :
         \E value \in FieldValues(field) \ {GetField(audit_log[i + 1], field)} :
           /\ audit_log' = [audit_log EXCEPT ![i + 1] = SetField(@, field, value)]
           /\ tampered' = {<<i, field>>}
    /\ ret' = [op |-> "tamper", value |-> None]
    /\ UNCHANGED <<event_index, chain_integrity, now, cvars, vvars, xvars>>

\* The three appends of the end-to-end scenario, one per event type.
ScenarioCalls ==
    { <<SYSTEM_INIT, "d1", "a1", None, "public">>,
      <<ETHICAL_DECISION, "d2", "a2", <<"k">>, "internal">>,
      <<PROOF_VERIFICATION, "d1", "a1", None, "public">> }

LogScenarioEvent == LogEventOf(ScenarioCalls)

NextTamper == LogScenarioEvent \/ VerifyIntegrity \/ Tamper

SpecTamper == Init /\ [][NextTamper]_vars

\* log_event calls with four kinds of sensitivity, one of them outside
\* public / internal / restricted.
ReadCalls ==
    { <<SYSTEM_INIT, "d1", "a1", None, "public">>,
      <<ETHICAL_DECISION, "d2", "a2", <<"k">>, "internal">>,
      <<PROOF_VERIFICATION, "d1", "a1", <<"k">>, "restricted">>,
      <<SYSTEM_INIT, "d2", "a2", None, "confidential">> }

LogReadEvent == LogEventOf(ReadCalls)

NextReads ==
    \/ LogReadEvent
    \/ VerifyIntegrity
    \/ ExportPublicAuditData
    \/ GetStatistics

SpecReads == Init /\ [][NextReads]_vars

\* datetime.utcnow() reads the system's wall clock, which is not a monotonic
\* clock: between two calls it may be set back (a time-service step, an
\* operator).  The other specifications leave this step out.
ClockSetBack ==
    /\ \E t \in Times : t < now /\ now' = t
    /\ UNCHANGED <<audit_log, event_index, chain_integrity, ret, tampered, cvars, vvars, xvars>>

NextClock ==
    \/ LogEvent
    \/ ClockSetBack

SpecClock == Init /\ [][NextClock]_vars

----------------------------------------------------------------------------
(* _compute_chain_hash as a function of its inputs: the serialisation      *)
(* json.dumps(entry_data, sort_keys=True) spelled out.  A dict is the      *)
(* sequence of its (key, value) pairs in insertion order.                  *)

\* The place of each key of entry_data in the lexicographic order of keys.
KeyRank ==
    [description |-> 1, event_id |-> 2, event_type |-> 3, prev_hash |-> 4,
     timestamp |-> 5]

\* The orders in which the four fields may be put into entry_data: the order
\* of the source, and the reverse.
KeyOrders ==
    { <<"event_id", "timestamp", "event_type", "description">>,
      <<"description", "event_type", "timestamp", "event_id">> }

\* entry_data: the four fields in the given order, then prev_hash when
\* prev_index is given and >= 0.
EntryData(log, entry, prev_index, order) ==
    [k \in 1..Len(order) |-> <<order[k], entry[order[k]]>>]
      \o (IF prev_index # None /\ prev_index[1] >= 0
          THEN << <<"prev_hash", log[prev_index[1] + 1].chain_hash>> >>
          ELSE <<>>)

\* A serialisation that keeps the insertion order (json.dumps without
\* sort_keys).
json_dumps_insertion_order(entry_data) == <<"json", entry_data>>

KeyBefore(a, b) == KeyRank[a[1]] < KeyRank[b[1]]

\* json.dumps(entry_data, sort_keys=True): the pairs in key order.
json_dumps(entry_data) == <<"json", SortSeq(entry_data, KeyBefore)>>

\* hashlib.sha256(...).hexdigest(), injective.
sha256(text) == <<"sha256", text>>

\* What _compute_chain_hash reads: the four fields and, when given, the
\* chain_hash stored at prev_index.
HashInputs(log, entry, prev_index) ==
    [event_id |-> entry.event_id,
     timestamp |-> entry.timestamp,
     event_type |-> entry.event_type,
     description |-> entry.description,
     prev_hash |-> IF prev_index # None /\ prev_index[1] >= 0
                   THEN Some(log[prev_index[1] + 1].chain_hash)
                   ELSE None]

\* The values of prev_index tried: None, -1, and the first and the last
\* index of the log.
PrevIndices(log) ==
    {None, Some(-1)} \cup {Some(k) : k \in {0, Len(log) - 1} \cap 0..(Len(log) - 1)}

\* The entry dicts handed to _compute_chain_hash: a stored entry, and a dict
\* that differs from it in every field the digest does not cover.
EntryArgs(log) ==
    {log[i] : i \in 1..Len(log)}
    \cup {[log[i] EXCEPT !.actor = "a3", !.metadata = <<"m">>,
                         !.sensitivity = "restricted", !.chain_hash = None] :
            i \in 1..Len(log)}

\* The first caller applies _compute_chain_hash to a stored entry and keeps
\* the digest in a local variable ...
HashFirst ==
    /\ pc[1] = "idle"
    /\ \E entry \in EntryArgs(audit_log), prev_index \in PrevIndices(audit_log),
          order \in KeyOrders :
             loc' = [loc EXCEPT ![1] =
                       [inputs1 |-> HashInputs(audit_log, entry, prev_index),
                        digest1 |-> sha256(json_dumps(
                                      EntryData(audit_log, entry, prev_index, order)))]]
    /\ pc' = [pc EXCEPT ![1] = "hashed"]
    /\ UNCHANGED <<avars, vvars, xvars>>

\* ... and applies it again later, the store having grown or not.
HashSecond ==
    /\ pc[1] = "hashed"
    /\ \E entry \in EntryArgs(audit_log), prev_index \in PrevIndices(audit_log),
          order \in KeyOrders :
             loc' = [loc EXCEPT ![1] =
                       [inputs1 |-> loc[1].inputs1,
                        digest1 |-> loc[1].digest1,
                        inputs2 |-> HashInputs(audit_log, entry, prev_index),
                        digest2 |-> sha256(json_dumps(
                                      EntryData(audit_log, entry, prev_index, order)))]]
    /\ pc' = [pc EXCEPT ![1] = "compared"]
    /\ UNCHANGED <<avars, vvars, xvars>>

\* The appends that build the stores the digest is computed in.
HashCalls ==
    { <<SYSTEM_INIT, "d1", "a1", None, "public">>,
      <<ETHICAL_DECISION, "d2", "a2", <<"k">>, "internal">> }

LogHashEvent == LogEventOf(HashCalls)

NextHash ==
    \/ LogHashEvent
    \/ HashFirst
    \/ HashSecond

SpecHash == Init /\ [][NextHash]_vars

\* The .value strings of the ten members of the enum AuditEventType.
AuditEventType ==
    {"system_initialization", "kernel_operation", "ethical_decision",
     "ai_processing", "memory_access", "sentient_activity",
     "proof_verification", "security_event", "data_access",
     "configuration_change"}

\* What a caller may pass as event_type (the annotation is not enforced):
\* a member of AuditEventType, a plain string, which has no attribute
\* "value", or an object of another class that has one, such as a member of
\* another Enum.
EventTypeArgs ==
    {[kind |-> "member", value |-> v] :
        v \in {SYSTEM_INIT, "security_event"}}
    \cup {[kind |-> "str", value |-> "security_event"],
          [kind |-> "str", value |-> "bogus"],
          [kind |-> "other", value |-> "bogus"]}

\* What a caller may pass as metadata: nothing (None), the flat dict
\* {"k": "v"}, the nested dict {"k": {"n": "1"}}.  A dict is the tuple of its
\* (path of keys, value) pairs, the empty dict the empty tuple.
MetadataArgs ==
    {None, << <<<<"k">>, "v">> >>, << <<<<"k", "n">>, "1">> >>}

\* log_event(event_type, "d1", "a1", metadata): event_type.value (line 55) raises
\* AttributeError for an argument without that attribute, after
\* _generate_event_id has read the clock and before anything is stored.
LogEventArg ==
    /\ Len(audit_log) < MaxLog
    /\ \E arg \in EventTypeArgs, metadata \in MetadataArgs, t1 \in now..MaxTime :
         IF arg.kind = "str"
         THEN /\ now' = t1
              /\ ret' = [op |-> "log_event", arg |-> arg, metadata |-> metadata,
                         value |-> None, raised |-> "AttributeError"]
              /\ UNCHANGED <<audit_log, event_index, chain_integrity>>
         ELSE \E t2 \in t1..MaxTime :
                LET call == <<arg.value, "d1", "a1", metadata, "public">>
                    event_id == _generate_event_id(audit_log, t1)
                    audit_entry == StampedEntry(audit_log, NewEntry(event_id, t2, call))
                IN  /\ audit_log' = Append(audit_log, audit_entry)
                    /\ event_index' = _index_event(event_index, event_id, arg.value)
                    /\ chain_integrity' = _update_integrity_chain(chain_integrity, audit_entry)
                    /\ now' = t2
                    /\ ret' = [op |-> "log_event", arg |-> arg, metadata |-> metadata,
                               value |-> event_id, raised |-> ""]
    /\ UNCHANGED <<tampered, cvars, vvars, xvars>>

NextArgs == LogEventArg

SpecArgs == Init /\ [][NextArgs]_vars

\* The caller has taken the value of its last call: no call is in progress.
Returned == ret.op \in {"init", "return"}

Return ==
    /\ ~Returned
    /\ ret' = [op |-> "return", value |-> None]
    /\ UNCHANGED <<audit_log, event_index, chain_integrity, now, tampered, cvars, vvars, xvars>>

\* The caller removes the last element of the list query_events returned
\* (results.pop()); the store's list changes with it only if it is that list.
PopResult ==
    /\ ret.op = "query_events"
    /\ ret.value # <<>>
    /\ ret' = [op |-> "pop_result",
               value |-> SubSeq(ret.value, 1, Len(ret.value) - 1)]
    /\ audit_log' = IF ret.is_store
                    THEN SubSeq(audit_log, 1, Len(audit_log) - 1)
                    ELSE audit_log
    /\ UNCHANGED <<event_index, chain_integrity, now, tampered, cvars, vvars, xvars>>

\* Every operation of AuditTrail, each call made after the one before it
\* has returned.
NextOps ==
    \/ Returned /\ LogScenarioEvent
    \/ Returned /\ QueryEvents
    \/ Returned /\ VerifyIntegrity
    \/ Returned /\ ExportPublicAuditData
    \/ Returned /\ GetStatistics
    \/ PopResult
    \/ Return

SpecOps == Init /\ [][NextOps]_vars

----------------------------------------------------------------------------
(* Claims about AuditTrail *)

Verified == ret.op = "verify_integrity"

IssueIds == {ret.value.issues[k].event_id : k \in 1..Len(ret.value.issues)}

\* C1: verify_integrity on a log built only by n >= 1 log_event calls and
\* never modified returns integrity_verified = true and an empty issues list.
C1_UnmodifiedLogVerifies ==
    (Verified /\ Len(audit_log) >= 1)
        => (ret.value.integrity_verified /\ ret.value.issues = <<>>)

\* Whether digest h was computed with digest p as its previous-hash input:
\* the serialised dictionary then has the fifth value prev_hash = p.
HasPrevInput(h, p) == Len(h) = 5 /\ h[5] = p

HasNoPrevInput(h) == Len(h) = 4

\* C2: the chain_hash of every entry i > 0 was computed with the chain_hash
\* of entry i-1 as an input, and that of entry 0 without a previous hash.
C2_HashChainsToPredecessor ==
    \A i \in 0..(Len(audit_log) - 1) :
        IF i > 0
        THEN HasPrevInput(audit_log[i + 1].chain_hash, audit_log[i].chain_hash)
        ELSE HasNoPrevInput(audit_log[i + 1].chain_hash)

\* C3 as stated: after one field (any of the seven, chain_hash excluded) of
\* entry i was changed, verify_integrity lists entry i's event_id.
C3_AnyFieldTamperFlagged ==
    \A i \in 0..(Len(audit_log) - 1), field \in Fields :
        (Verified /\ tampered = {<<i, field>>})
            => audit_log[i + 1].event_id \in IssueIds

\* C3 as amended: after one of the hashed fields (event_id, timestamp,
\* event_type, description) of entry i was changed, verify_integrity lists
\* entry i's event_id among its issues.
C3_HashedFieldTamperFlagged ==
    \A i \in 0..(Len(audit_log) - 1), field \in HashedFields :
        (Verified /\ tampered = {<<i, field>>})
            => audit_log[i + 1].event_id \in IssueIds

\* The genesis entry's description was changed and the log then verified.
C3_Witness ==
    /\ Verified
    /\ tampered = {<<0, "description">>}
    /\ audit_log[1].event_id \in IssueIds

ScenarioLog ==
    /\ Len(audit_log) = 3
    /\ audit_log[1].event_type = SYSTEM_INIT
    /\ audit_log[2].event_type = ETHICAL_DECISION
    /\ audit_log[3].event_type = PROOF_VERIFICATION

\* C4: after the three scenario appends and a change of one entry's
\* description, verify_integrity reports exactly one issue, that entry's id.
C4_ScenarioOneIssue ==
    \A i \in 0..2 :
        (Verified /\ ScenarioLog /\ tampered = {<<i, "description">>})
            => /\ Len(ret.value.issues) = 1
               /\ ret.value.issues[1].event_id = audit_log[i + 1].event_id

GenesisUnmodified == \A field \in Fields : <<0, field>> \notin tampered

\* C5: while the genesis entry is unmodified (and no other entry was given
\* its event_id), verify_integrity does not list the genesis entry.
C5_GenesisNeverFlagged ==
    (/\ Verified
     /\ Len(audit_log) >= 1
     /\ GenesisUnmodified
     /\ \A j \in 2..Len(audit_log) : audit_log[j].event_id # audit_log[1].event_id)
        => audit_log[1].event_id \notin IssueIds

\* A later entry was changed, the log verified, and the genesis entry passed.
C5_Witness ==
    /\ Verified
    /\ Len(audit_log) >= 2
    /\ tampered # {}
    /\ GenesisUnmodified
    /\ ret.value.issues # <<>>
    /\ audit_log[1].event_id \notin IssueIds

\* C12: every operation of AuditTrail leaves the log it found as a prefix of
\* the log it leaves, each existing entry unchanged in every field.
C12_LogIsAppendOnly ==
    [][/\ Len(audit_log') >= Len(audit_log)
       /\ SubSeq(audit_log', 1, Len(audit_log)) = audit_log]_vars

\* An entry was appended behind two earlier ones.
C12_Witness ==
    /\ ret.op = "log_event"
    /\ Len(audit_log) = 3

PublicKeys == {"event_id", "timestamp", "event_type", "description", "actor"}

IsPublic(e) == e.sensitivity = "public"

\* C13: export_public_audit_data returns, in append order, exactly the
\* entries whose sensitivity is "public", each with the five public fields
\* only (no metadata, chain_hash or sensitivity).
C13_ExportOnlyPublic ==
    ret.op = "export_public_audit_data" =>
        LET events == ret.value.events
            public == SelectSeq(audit_log, IsPublic)
        IN  /\ Len(events) = Len(public)
            /\ \A k \in 1..Len(events) :
                  /\ DOMAIN events[k] = PublicKeys
                  /\ \A key \in PublicKeys : events[k][key] = public[k][key]

\* An export of a log holding a public entry and one whose sensitivity is
\* none of public, internal, restricted.
C13_Witness ==
    /\ ret.op = "export_public_audit_data"
    /\ \E i \in 1..Len(audit_log) : audit_log[i].sensitivity = "confidential"
    /\ Len(ret.value.events) >= 1
    /\ Len(ret.value.events) < Len(audit_log)

FilterKeys == {"event_type", "actor", "sensitivity"}

\* The entry equals every filter field present in the filters dict.
MatchesFilters(e, filters) ==
    \A key \in FilterKeys \cap DOMAIN filters : e[key] = filters[key]

\* C14 as stated: query_events returns, in append order, exactly the entries
\* that equal every supplied filter field and whose timestamp lies within
\* the inclusive bounds that were supplied (a bound is supplied unless None).
C14_QueryExactSupplied ==
    ret.op = "query_events" =>
        LET Wanted(e) ==
                /\ MatchesFilters(e, ret.filters)
                /\ ret.start_time # None => e.timestamp >= ret.start_time[1]
                /\ ret.end_time # None => e.timestamp <= ret.end_time[1]
        IN  ret.value = SelectSeq(audit_log, Wanted)

\* C14 as amended: the same, a bound counting as supplied only if it is
\* neither None nor the empty string.
C14_QueryExactNonEmpty ==
    ret.op = "query_events" =>
        LET Given(b) == b # None /\ b # Some(EmptyStr)
            Wanted(e) ==
                /\ MatchesFilters(e, ret.filters)
                /\ Given(ret.start_time) => e.timestamp >= ret.start_time[1]
                /\ Given(ret.end_time) => e.timestamp <= ret.end_time[1]
        IN  ret.value = SelectSeq(audit_log, Wanted)

\* A query by actor and by both time bounds that returns some entries, not all.
C14_Witness ==
    /\ ret.op = "query_events"
    /\ ret.filters = [actor |-> "a1"]
    /\ ret.start_time = Some(1)
    /\ ret.end_time = Some(1)
    /\ Len(ret.value) >= 1
    /\ Len(ret.value) < Len(audit_log)

\* C22: after any sequence of log_event calls the timestamps of the log are
\* non-decreasing: timestamp[i] <= timestamp[j] for all entries i < j.
C22_TimestampsNonDecreasing ==
    \A i, j \in 1..Len(audit_log) :
        i < j => audit_log[i].timestamp <= audit_log[j].timestamp

\* C23: query_events given a filters dict with a key other than event_type,
\* actor or sensitivity returns (it does not fail) and returns no entry: the
\* unknown filter matches nothing.
C23_UnknownFilterMatchesNothing ==
    (ret.op = "query_events" /\ ~(DOMAIN ret.filters \subseteq FilterKeys))
        => ret.value = <<>>

\* C24: every entry log_event stores has an event_type that is one of the
\* ten values of AuditEventType, and a call whose event_type argument is not
\* a member of the enumeration appends nothing to audit_log, event_index or
\* chain_integrity.
C24_OnlyEnumeratedTypesStored ==
    [][/\ \A i \in 1..Len(audit_log') : audit_log'[i].event_type \in AuditEventType
       /\ (ret'.op = "log_event" /\ ret'.arg.kind # "member")
            => UNCHANGED <<audit_log, event_index, chain_integrity>>]_vars

\* C25: two calls of _compute_chain_hash with equal event_id, timestamp,
\* event_type, description and previous chain_hash return the same digest,
\* whatever else the store holds and in whatever order the fields were put
\* into the dict.
C25_HashDependsOnInputsOnly ==
    (pc[1] = "compared" /\ loc[1].inputs1 = loc[1].inputs2)
        => loc[1].digest1 = loc[1].digest2

\* Two calls with equal inputs, the second after the log has grown.
C25_Witness ==
    /\ pc[1] = "compared"
    /\ loc[1].inputs1 = loc[1].inputs2
    /\ loc[1].inputs1.prev_hash # None
    /\ loc[1].inputs1.event_id[2] = 1
    /\ Len(audit_log) = 3

\* C26: log_event stores the metadata it is given (the empty dict when none
\* is given), and the chain_hash of the stored entry is the one the same
\* append would have produced with any other metadata.
C26_MetadataOpaque ==
    (ret.op = "log_event" /\ ret.raised = "")
        => LET n == Len(audit_log)
               entry == audit_log[n]
               before == SubSeq(audit_log, 1, n - 1)
           IN  /\ entry.metadata = (IF ret.metadata = None THEN <<>> ELSE ret.metadata)
               /\ \A metadata \in MetadataArgs :
                     StampedEntry(before, [entry EXCEPT !.metadata = metadata]).chain_hash
                        = entry.chain_hash

\* A second append, made with a nested dict as metadata.
C26_Witness ==
    /\ ret.op = "log_event"
    /\ ret.raised = ""
    /\ ret.metadata = << <<<<"k", "n">>, "1">> >>
    /\ Len(audit_log) = 2
    /\ audit_log[2].metadata = ret.metadata
    /\ audit_log[1].metadata = <<>>

\* C28: after any sequence of AuditTrail operations made one after the
\* other, chain_integrity is as long as audit_log, chain_integrity[i] carries
\* the event_id, timestamp and chain_hash of audit_log[i], and get_statistics
\* reports chain_length = total_events.
C28_ChainMirrorsLog ==
    /\ Len(chain_integrity) = Len(audit_log)
    /\ \A i \in 1..Len(audit_log) :
          chain_integrity[i] = [event_id |-> audit_log[i].event_id,
                                timestamp |-> audit_log[i].timestamp,
                                hash |-> audit_log[i].chain_hash]
    /\ ret.op = "get_statistics"
          => ret.value.chain_length = ret.value.total_events

\* Statistics of a store of three entries.
C28_Witness ==
    /\ ret.op = "get_statistics"
    /\ ret.value.chain_length = 3
    /\ Len(chain_integrity) = 3
    /\ chain_integrity[3].hash = audit_log[3].chain_hash

ReadOps ==
    {"query_events", "verify_integrity", "export_public_audit_data",
     "get_statistics"}

\* C15: query_events, verify_integrity, export_public_audit_data and
\* get_statistics leave audit_log, event_index and chain_integrity unchanged,
\* and so does a change the caller makes to the list query_events returned.
C15_ReadsLeaveStore ==
    [][ret'.op \in ReadOps \cup {"pop_result"}
         => UNCHANGED <<audit_log, event_index, chain_integrity>>]_vars

\* The caller popped an element off a query result that held the whole log;
\* the store still holds every entry.
C15_Witness ==
    /\ ret.op = "pop_result"
    /\ Len(audit_log) >= 2
    /\ ret.value = SubSeq(audit_log, 1, Len(audit_log) - 1)

EventTypes == {SYSTEM_INIT, ETHICAL_DECISION, PROOF_VERIFICATION}

\* The positions of the entries of the given type.
OfType(event_type) ==
    {i \in 1..Len(audit_log) : audit_log[i].event_type = event_type}

\* C16: get_statistics reports total_events equal to the number of entries
\* logged, event_types mapping each type present to the number of entries of
\* that type (absent types have no key), and oldest_event and newest_event
\* equal to the timestamps of the first and of the last entry.
C16_StatisticsMatchLog ==
    ret.op = "get_statistics" =>
        /\ ret.value.total_events = Len(audit_log)
        /\ ret.value.total_events = Len(chain_integrity)
        /\ DOMAIN ret.value.event_types = {t \in EventTypes : OfType(t) # {}}
        /\ \A t \in DOMAIN ret.value.event_types :
              ret.value.event_types[t] = Cardinality(OfType(t))
        /\ Len(audit_log) >= 1 =>
              /\ ret.value.oldest_event = Some(audit_log[1].timestamp)
              /\ ret.value.newest_event = Some(audit_log[Len(audit_log)].timestamp)

\* Statistics of a log of three entries of which two have the same type and
\* the first is older than the last.
C16_Witness ==
    /\ ret.op = "get_statistics"
    /\ ret.value.total_events = 3
    /\ \E t \in DOMAIN ret.value.event_types : ret.value.event_types[t] = 2
    /\ ret.value.oldest_event # ret.value.newest_event

\* The entry at index i does not carry the hash verify_integrity recomputes.
Mismatching(i) ==
    audit_log[i + 1].chain_hash
       # _compute_chain_hash(audit_log, audit_log[i + 1],
                             IF i > 0 THEN Some(i - 1) ELSE None)

\* C17: verify_integrity lists the event_id of every mismatching entry, in
\* log order, one issue per such entry: it does not stop at the first.
C17_EveryMismatchListed ==
    Verified =>
        LET indices == [i \in 1..Len(audit_log) |-> i - 1]
            mismatching == SelectSeq(indices, Mismatching)
            issues == ret.value.issues
        IN  /\ Len(issues) = Len(mismatching)
            /\ \A k \in 1..Len(issues) :
                  /\ issues[k].event_id = audit_log[mismatching[k] + 1].event_id
                  /\ issues[k].issue = "Chain hash mismatch"
            /\ ret.value.integrity_verified = (mismatching = <<>>)

\* A verification that lists three entries, the genesis entry among them.
C17_Witness ==
    /\ Verified
    /\ Len(ret.value.issues) = 3
    /\ Mismatching(0)

----------------------------------------------------------------------------
(* Two callers of log_event whose statements interleave: AuditTrail takes  *)
(* no lock, so a thread switch may fall between any two statements.        *)

\* the caller enters log_event with its arguments
Call(p) ==
    /\ pc[p] = "idle"
    /\ \E call \in ScenarioCalls :
         loc' = [loc EXCEPT ![p] = [call |-> call, event_id |-> None,
                                    audit_entry |-> None]]
    /\ pc' = [pc EXCEPT ![p] = "generate_event_id"]
    /\ UNCHANGED <<avars, vvars, xvars>>

\* event_id = self._generate_event_id()
GenerateEventId(p) ==
    /\ pc[p] = "generate_event_id"
    /\ \E t1 \in now..MaxTime :
         /\ loc' = [loc EXCEPT ![p].event_id = _generate_event_id(audit_log, t1)]
         /\ now' = t1
    /\ pc' = [pc EXCEPT ![p] = "build_entry"]
    /\ UNCHANGED <<audit_log, event_index, chain_integrity, ret, tampered, vvars, xvars>>

\* audit_entry = {...}
BuildEntry(p) ==
    /\ pc[p] = "build_entry"
    /\ \E t2 \in now..MaxTime :
         /\ loc' = [loc EXCEPT ![p].audit_entry =
                        NewEntry(loc[p].event_id, t2, loc[p].call)]
         /\ now' = t2
    /\ pc' = [pc EXCEPT ![p] = "compute_chain_hash"]
    /\ UNCHANGED <<audit_log, event_index, chain_integrity, ret, tampered, vvars, xvars>>

\* A log_event that appends the entry without assigning its chain_hash.
ComputeChainHash_not_assigned(p) ==
    /\ pc[p] = "compute_chain_hash"
    /\ pc' = [pc EXCEPT ![p] = "append"]
    /\ UNCHANGED <<avars, loc, vvars, xvars>>

\* audit_entry["chain_hash"] = self._compute_chain_hash(audit_entry)
ComputeChainHash(p) ==
    /\ pc[p] = "compute_chain_hash"
    /\ loc' = [loc EXCEPT ![p].audit_entry = StampedEntry(audit_log, @)]
    /\ pc' = [pc EXCEPT ![p] = "append"]
    /\ UNCHANGED <<avars, vvars, xvars>>

\* self.audit_log.append(audit_entry)
AppendEntry(p) ==
    /\ pc[p] = "append"
    /\ audit_log' = Append(audit_log, loc[p].audit_entry)
    /\ pc' = [pc EXCEPT ![p] = "index_event"]
    /\ UNCHANGED <<event_index, chain_integrity, now, ret, tampered, loc, vvars, xvars>>

\* self._index_event(event_id, event_type, audit_entry)
IndexEvent(p) ==
    /\ pc[p] = "index_event"
    /\ event_index' = _index_event(event_index, loc[p].event_id, loc[p].call[1])
    /\ pc' = [pc EXCEPT ![p] = "update_integrity_chain"]
    /\ UNCHANGED <<audit_log, chain_integrity, now, ret, tampered, loc, vvars, xvars>>

\* self._update_integrity_chain(audit_entry); return event_id
UpdateIntegrityChain(p) ==
    /\ pc[p] = "update_integrity_chain"
    /\ chain_integrity' = _update_integrity_chain(chain_integrity, loc[p].audit_entry)
    /\ pc' = [pc EXCEPT ![p] = "done"]
    /\ UNCHANGED <<audit_log, event_index, now, ret, tampered, loc, vvars, xvars>>

\* Besides the two writers, a reader may call verify_integrity at any point.
NextConc ==
    \/ \E p \in Callers :
        \/ Call(p)
        \/ GenerateEventId(p)
        \/ BuildEntry(p)
        \/ ComputeChainHash(p)
        \/ AppendEntry(p)
        \/ IndexEvent(p)
        \/ UpdateIntegrityChain(p)
    \/ VerifyIntegrity

SpecConc == Init /\ [][NextConc]_vars

BothDone == \A p \in Callers : pc[p] = "done"

LogIds == [i \in 1..Len(audit_log) |-> audit_log[i].event_id]

ChainIds == [i \in 1..Len(chain_integrity) |-> chain_integrity[i].event_id]

\* C10: two interleaved log_event calls leave the store as some serial order
\* of the two would: two distinct event ids, and audit_log and
\* chain_integrity holding the two entries in the same order.
C10_InterleavingSerializable ==
    BothDone =>
        /\ loc[1].event_id # loc[2].event_id
        /\ LogIds = ChainIds

\* Two stored entries were built on the same predecessor: both callers read
\* the same len(audit_log), the second component of the event id.
Forked ==
    \E i, j \in 1..Len(audit_log) :
        i < j /\ audit_log[i].event_id[2] = audit_log[j].event_id[2]

\* C20: in every reachable state no two entries of audit_log have the same
\* event_id.
C20_EventIdsUnique ==
    \A i, j \in 1..Len(audit_log) :
        i # j => audit_log[i].event_id # audit_log[j].event_id

\* How often the id occurs in the index list of the event type.
IndexCount(index, event_type, event_id) ==
    IF event_type \in DOMAIN index
    THEN Cardinality({k \in 1..Len(index[event_type]) :
                        index[event_type][k] = event_id})
    ELSE 0

\* C27: each log_event call grows audit_log by exactly one entry, placed
\* last; the entry carries a non-null chain_hash from the moment it is in
\* audit_log; the call returns the entry's event_id and appends that id to
\* event_index under the entry's event type.
C27_LogEventAppendsOne ==
    [][/\ \/ audit_log' = audit_log
          \/ \E p \in Callers :
               /\ pc[p] = "append"
               /\ pc'[p] = "index_event"
               /\ audit_log' = Append(audit_log, loc[p].audit_entry)
               /\ loc[p].audit_entry.event_id = loc[p].event_id
               /\ loc[p].audit_entry.event_type = loc[p].call[1]
       /\ \A i \in 1..Len(audit_log') : audit_log'[i].chain_hash # None
       /\ \A p \in Callers :
            (pc[p] = "index_event" /\ pc'[p] # pc[p])
               => IndexCount(event_index', loc[p].call[1], loc[p].event_id)
                    = IndexCount(event_index, loc[p].call[1], loc[p].event_id) + 1
       /\ (\A p \in Callers : pc'[p] = "done")
            => /\ Len(audit_log') = Cardinality(Callers)
               /\ \A p \in Callers :
                    \E i \in 1..Len(audit_log') :
                       audit_log'[i] = loc'[p].audit_entry]_vars

\* Both calls have returned, each entry in the log with its digest.
C27_Witness ==
    /\ BothDone
    /\ Len(audit_log) = 2
    /\ audit_log[1].event_type # audit_log[2].event_type
    /\ \A i \in 1..2 : audit_log[i].chain_hash # None

\* C11: when the log holds a fork, verify_integrity reports an issue other
\* than the generic "Chain hash mismatch".
C11_ForkReportedDistinctly ==
    (Verified /\ BothDone /\ Forked)
        => \E k \in 1..Len(ret.value.issues) :
              ret.value.issues[k].issue # "Chain hash mismatch"

----------------------------------------------------------------------------
(* A reader running while the two callers of log_event run.  The reader    *)
(* takes no lock and no copy either: a thread switch may fall between the  *)
(* statements of a read, which are taken here in two steps each.           *)

\* get_statistics, the counting loop over self.audit_log
StatisticsCount ==
    /\ ret.op = "init"
    /\ ret' = [op |-> "get_statistics_counted",
               event_types |-> EventTypesFrom(audit_log, 0, <<>>)]
    /\ UNCHANGED <<audit_log, event_index, chain_integrity, now, tampered, cvars, vvars, xvars>>

\* get_statistics, the returned dict: len(self.audit_log),
\* len(self.chain_integrity) and the first and last timestamps read now
StatisticsReturn ==
    /\ ret.op = "get_statistics_counted"
    /\ ret' = [op |-> "get_statistics",
               value |-> [get_statistics(audit_log, chain_integrity)
                            EXCEPT !.event_types = ret.event_types]]
    /\ UNCHANGED <<audit_log, event_index, chain_integrity, now, tampered, cvars, vvars, xvars>>

\* export_public_audit_data, the comprehension that builds public_events
ExportCollect ==
    /\ ret.op = "init"
    /\ ret' = [op |-> "export_collected",
               public_events |-> PublicEventsFrom(audit_log, 0)]
    /\ UNCHANGED <<audit_log, event_index, chain_integrity, now, tampered, cvars, vvars, xvars>>

\* export_public_audit_data, the returned dict: self.verify_integrity() is
\* called now
ExportReturn ==
    /\ ret.op = "export_collected"
    /\ ret' = [op |-> "export_public_audit_data",
               value |-> [version |-> "1.0.0",
                          total_public_events |-> Len(ret.public_events),
                          events |-> ret.public_events,
                          integrity_status |-> verify_integrity(audit_log)]]
    /\ UNCHANGED <<audit_log, event_index, chain_integrity, now, tampered, cvars, vvars, xvars>>

\* One read by a third thread, at any point of the two log_event calls.
NextConcReads ==
    \/ \E p \in Callers :
        \/ Call(p)
        \/ GenerateEventId(p)
        \/ BuildEntry(p)
        \/ ComputeChainHash(p)
        \/ AppendEntry(p)
        \/ IndexEvent(p)
        \/ UpdateIntegrityChain(p)
    \/ StatisticsCount
    \/ StatisticsReturn
    \/ ExportCollect
    \/ ExportReturn

SpecConcReads == Init /\ [][NextConcReads]_vars

\* C21: a read that runs while log_event runs returns a result computed from
\* the log as it was at one instant: get_statistics reports chain_length
\* equal to total_events, and the events and the integrity_status of one
\* export are those of one and the same prefix of the log.
C21_ReadsSeeOneInstant ==
    /\ ret.op = "get_statistics"
         => ret.value.chain_length = ret.value.total_events
    /\ ret.op = "export_public_audit_data"
         => \E n \in 0..Len(audit_log) :
               LET snapshot == SubSeq(audit_log, 1, n)
               IN  /\ ret.value.events = PublicEventsFrom(snapshot, 0)
                   /\ ret.value.integrity_status = verify_integrity(snapshot)

----------------------------------------------------------------------------
(* The standalone verifier (verify-chain.py): its input files              *)

\* A JSON object is a function from its keys; d[k] raises KeyError when
\* k is not a key of d.
HasKey(d, k) == k \in DOMAIN d

DropKey(d, key) == [k \in DOMAIN d \ {key} |-> d[k]]

\* The stored digest of the k-th exported entry: an opaque value, distinct
\* per entry; Digest(-1) is a digest no entry of the chain has.
Digest(k) == <<"sha256", k>>

ExportTypes == {SYSTEM_INIT, ETHICAL_DECISION}

EntryKeys == {"entry_id", "timestamp", "event_type", "hash", "previous_hash"}

ChainKeys == {"chain_id", "genesis_timestamp", "chain_status", "entries"}

\* The export of a chain whose links are all correct: entry k carries its
\* own digest and that of entry k-1 (empty for the first entry).
LinkedEntries(types) ==
    [k \in 1..Len(types) |->
        [entry_id |-> <<"entry", k - 1>>,
         timestamp |-> k - 1,
         event_type |-> types[k],
         hash |-> Digest(k - 1),
         previous_hash |-> IF k = 1 THEN <<>> ELSE Digest(k - 2)]]

ChainObject(entries) ==
    [chain_id |-> "OR1ON",
     genesis_timestamp |-> 0,
     chain_status |-> [active |-> TRUE, verified |-> TRUE, public |-> TRUE],
     entries |-> entries]

TypeSeqs == UNION {[1..n -> ExportTypes] : n \in 0..MaxEntries}

\* The single changes made to a well-linked export.
Mutations(n) ==
    {[kind |-> "none", index |-> 0]}
    \cup {[kind |-> k, index |-> i] :
            k \in {"timestamp", "event_type", "previous_hash", "hash"},
            i \in 0..(n - 1)}
    \cup {[kind |-> "drop_entry_key", index |-> i, key |-> key] :
            i \in 0..(n - 1), key \in EntryKeys}
    \cup {[kind |-> "drop_key", index |-> 0, key |-> key] : key \in ChainKeys}
    \cup {[kind |-> "previous_hash_from", index |-> i] : i \in 1..(n - 2)}

MutateEntry(e, m) ==
    CASE m.kind = "timestamp" -> [e EXCEPT !.timestamp = @ + 1]
      [] m.kind = "event_type" ->
            [e EXCEPT !.event_type = CHOOSE t \in ExportTypes : t # @]
      [] m.kind = "previous_hash" -> [e EXCEPT !.previous_hash = Digest(-1)]
      [] m.kind = "previous_hash_from" -> [e EXCEPT !.previous_hash = Digest(-1)]
      [] m.kind = "hash" -> [e EXCEPT !.hash = Digest(-1)]
      [] m.kind = "drop_entry_key" -> DropKey(e, m.key)

Mutated(entries, m) ==
    CASE m.kind = "none" -> ChainObject(entries)
      [] m.kind = "drop_key" -> DropKey(ChainObject(entries), m.key)
      [] OTHER ->
            ChainObject([k \in 1..Len(entries) |->
                            IF \/ k = m.index + 1
                               \/ m.kind = "previous_hash_from" /\ k > m.index
                            THEN MutateEntry(entries[k], m)
                            ELSE entries[k]])

\* The two layouts of the file: the chain object under the top-level key
\* "audit_log", or the chain object itself at the top level.
Layouts == {"wrapped", "canonical"}

FileOf(layout, chain) ==
    [kind |-> "json",
     layout |-> layout,
     data |-> IF layout = "wrapped" THEN [audit_log |-> chain] ELSE chain]

InitVerifier ==
    /\ \/ /\ vfile \in {[kind |-> "missing", data |-> <<>>],
                        [kind |-> "invalid_json", data |-> <<>>]}
          /\ vmut = [kind |-> "none", index |-> 0]
       \/ \E types \in TypeSeqs, layout \in Layouts :
            \E m \in Mutations(Len(types)) :
              /\ vfile = FileOf(layout, Mutated(LinkedEntries(types), m))
              /\ vmut = m
    /\ vpc = "main"
    /\ vlog = <<>>
    /\ vi = 0
    /\ verified = TRUE
    /\ vout = <<>>
    /\ verr = NoError
    /\ exit_code = -1

----------------------------------------------------------------------------
(* The standalone verifier: the run of the script *)

Raise(exc, at) ==
    /\ verr' = [exc |-> exc, at |-> at]
    /\ vpc' = "raised"

\* verifier = AuditChainVerifier("audit-log.json"): __init__ calls
\* load_audit_log, which reports and re-raises FileNotFoundError,
\* JSONDecodeError and the KeyError of data['audit_log'].
LoadAuditLog ==
    /\ vpc = "main"
    /\ IF vfile.kind = "missing"
       THEN Raise("FileNotFoundError", "load_audit_log") /\ UNCHANGED vlog
       ELSE IF vfile.kind = "invalid_json"
       THEN Raise("JSONDecodeError", "load_audit_log") /\ UNCHANGED vlog
       ELSE IF ~HasKey(vfile.data, "audit_log")
       THEN Raise("KeyError", "load_audit_log") /\ UNCHANGED vlog
       ELSE /\ vlog' = vfile.data.audit_log
            /\ vpc' = "verify_chain"
            /\ UNCHANGED verr
    /\ UNCHANGED <<avars, cvars, xvars, vfile, vmut, vi, verified, vout, exit_code>>

\* verify_chain up to the loop: reads entries, chain_id, genesis_timestamp.
VerifyChainBegin ==
    /\ vpc = "verify_chain"
    /\ IF \E k \in {"entries", "chain_id", "genesis_timestamp"} : ~HasKey(vlog, k)
       THEN Raise("KeyError", "verify_chain") /\ UNCHANGED <<vi, verified>>
       ELSE /\ vi' = 0
            /\ verified' = TRUE
            /\ vpc' = "loop"
            /\ UNCHANGED verr
    /\ UNCHANGED <<avars, cvars, xvars, vfile, vmut, vlog, vout, exit_code>>

\* A link check that compares previous_hash with the entry's own hash.
LinkMatches_own_hash(entries, i) ==
    entries[i + 1].previous_hash = entries[i + 1].hash

\* previous_hash == entries[i-1]['hash'], for i > 0
LinkMatches(entries, i) ==
    entries[i + 1].previous_hash = entries[i].hash

\* A verdict that checks the link only from the third entry on (i > 1).
EntryVerdict_skip_first_link(entries, i) ==
    IF i > 1
    THEN IF ~LinkMatches(entries, i) THEN "mismatch" ELSE "link_verified"
    ELSE "genesis"

\* The line printed for entry i: the genesis block is not checked, a later
\* entry's previous_hash is compared with its predecessor's hash.
EntryVerdict(entries, i) ==
    IF i > 0
    THEN IF ~LinkMatches(entries, i) THEN "mismatch" ELSE "link_verified"
    ELSE "genesis"

\* A verdict variable overwritten by every link check.
NextVerified_last_link(v, verdict) == verdict # "mismatch"

\* verified = False on a mismatch, otherwise left as it is
NextVerified(v, verdict) == IF verdict = "mismatch" THEN FALSE ELSE v

\* A loop iteration for which a mismatch is fatal (raise after the report).
VerifyEntry_raise_on_mismatch ==
    /\ vpc = "loop"
    /\ vi < Len(vlog.entries)
    /\ LET entry == vlog.entries[vi + 1]
       IN  IF \E k \in EntryKeys : ~HasKey(entry, k)
           THEN Raise("KeyError", "verify_chain") /\ UNCHANGED <<vi, verified, vout>>
           ELSE LET verdict == EntryVerdict(vlog.entries, vi)
                IN  /\ vout' = Append(vout, [i |-> vi, entry_id |-> entry.entry_id,
                                             verdict |-> verdict])
                    /\ verified' = NextVerified(verified, verdict)
                    /\ vi' = vi + 1
                    /\ IF verdict = "mismatch"
                       THEN Raise("ValueError", "verify_chain")
                       ELSE UNCHANGED <<vpc, verr>>
    /\ UNCHANGED <<avars, cvars, xvars, vfile, vmut, vlog, exit_code>>

\* One iteration of the loop of verify_chain.
VerifyEntry ==
    /\ vpc = "loop"
    /\ vi < Len(vlog.entries)
    /\ LET entry == vlog.entries[vi + 1]
       IN  IF \E k \in EntryKeys : ~HasKey(entry, k)
           THEN Raise("KeyError", "verify_chain") /\ UNCHANGED <<vi, verified, vout>>
           ELSE LET verdict == EntryVerdict(vlog.entries, vi)
                IN  /\ vout' = Append(vout, [i |-> vi, entry_id |-> entry.entry_id,
                                             verdict |-> verdict])
                    /\ verified' = NextVerified(verified, verdict)
                    /\ vi' = vi + 1
                    /\ UNCHANGED <<vpc, verr>>
    /\ UNCHANGED <<avars, cvars, xvars, vfile, vmut, vlog, exit_code>>

\* After the loop: reads chain_status, prints the summary, returns verified.
VerifyChainEnd ==
    /\ vpc = "loop"
    /\ vi = Len(vlog.entries)
    /\ IF ~HasKey(vlog, "chain_status")
       THEN Raise("KeyError", "verify_chain")
       ELSE vpc' = "returned" /\ UNCHANGED verr
    /\ UNCHANGED <<avars, cvars, xvars, vfile, vmut, vlog, vi, verified, vout, exit_code>>

\* __main__ drops the value verify_chain returned and the script ends.
ExitMain ==
    /\ vpc = "returned"
    /\ exit_code' = 0
    /\ vpc' = "exited"
    /\ UNCHANGED <<avars, cvars, xvars, vfile, vmut, vlog, vi, verified, vout, verr>>

\* An exception nothing catches ends the interpreter with exit code 1.
ExitUncaught ==
    /\ vpc = "raised"
    /\ exit_code' = 1
    /\ vpc' = "exited"
    /\ UNCHANGED <<avars, cvars, xvars, vfile, vmut, vlog, vi, verified, vout, verr>>

NextVerifier ==
    \/ LoadAuditLog
    \/ VerifyChainBegin
    \/ VerifyEntry
    \/ VerifyChainEnd
    \/ ExitMain
    \/ ExitUncaught

InitV == InitTrail /\ IdleCallers /\ InitVerifier /\ InitKernels

SpecVerifier == InitV /\ [][NextVerifier]_vars

----------------------------------------------------------------------------
(* Claims about the standalone verifier *)

\* The chain object has every key of the export format, and so has each entry.
WellFormedChain(c) ==
    /\ ChainKeys \subseteq DOMAIN c
    /\ \A k \in 1..Len(c.entries) : EntryKeys \subseteq DOMAIN c.entries[k]

\* Every entry after the first names its predecessor's stored hash.
LinksCorrect(entries) ==
    \A k \in 2..Len(entries) : entries[k].previous_hash = entries[k - 1].hash

\* The file is a JSON object in the given layout holding a complete chain
\* object whose links are all correct.
GoodFile(layout) ==
    /\ vfile.kind = "json"
    /\ vfile.layout = layout
    /\ LET c == IF layout = "wrapped" THEN vfile.data.audit_log ELSE vfile.data
       IN  WellFormedChain(c) /\ LinksCorrect(c.entries)

Finished == vpc \in {"returned", "raised"}

\* C6 as stated: a JSON object with the top-level keys chain_id,
\* genesis_timestamp, chain_status and entries and correct links loads
\* without error and verify_chain returns true.
C6_CanonicalFormatAccepted ==
    (Finished /\ GoodFile("canonical")) => (vpc = "returned" /\ verified)

\* C6 as amended: a JSON object whose top-level key audit_log holds the
\* object with chain_id, genesis_timestamp, chain_status and entries, all
\* links correct, loads without error and verify_chain returns true.
C6_WrappedFormatAccepted ==
    (Finished /\ GoodFile("wrapped")) => (vpc = "returned" /\ verified)

C6_Witness ==
    /\ vpc = "returned"
    /\ GoodFile("wrapped")
    /\ Len(vlog.entries) >= 2
    /\ verified

\* C7 as stated: verify_chain re-derives each hash from the entry's content,
\* so after a change of one entry's timestamp or event_type (hash and
\* previous_hash untouched) it returns false.
C7_ContentChangeRejected ==
    (vpc = "returned" /\ vmut.kind \in {"timestamp", "event_type"}) => ~verified

\* C7 as amended: verify_chain checks linkage only; it returns true exactly
\* when every entry after the first carries its predecessor's stored hash as
\* previous_hash, whatever the entries' other content.
C7_VerdictIsLinkage ==
    vpc = "returned" => (verified <=> LinksCorrect(vlog.entries))

\* A chain of three with a broken link in the middle was judged: the verdict
\* is false although the last link checked is correct.
C7_Witness ==
    /\ vpc = "returned"
    /\ Len(vlog.entries) = 3
    /\ vmut = [kind |-> "previous_hash", index |-> 1]
    /\ ~verified

MismatchAt == {vout[k].i : k \in {j \in 1..Len(vout) : vout[j].verdict = "mismatch"}}

\* C8: in a chain whose links were all correct, a change of only
\* previous_hash of entry i > 0 is reported as a mismatch at entry i and at
\* no other entry, and the verdict is false.
C8_PreviousHashMismatchAtEntry ==
    (vpc = "returned" /\ vmut.kind = "previous_hash" /\ vmut.index > 0)
        => /\ MismatchAt = {vmut.index}
           /\ Len(vout) = Len(vlog.entries)
           /\ ~verified

C8_Witness ==
    /\ vpc = "returned"
    /\ vmut = [kind |-> "previous_hash", index |-> 1]
    /\ Len(vlog.entries) = 2
    /\ MismatchAt = {1}

\* C9: the run ends with exit code 0 exactly when every link verifies, and
\* with a non-zero code when a link fails or the file is missing or malformed.
C9_ExitCodeTellsVerdict ==
    vpc = "exited" => (exit_code = 0 <=> GoodFile("wrapped"))

\* The positions (0-based) of the entries that do not name their
\* predecessor's stored hash.
BrokenLinks(entries) ==
    {i \in 1..(Len(entries) - 1) : entries[i + 1].previous_hash # entries[i].hash}

\* C18: on a complete chain object, a previous_hash mismatch does not end the
\* run: verify_chain examines every entry, reports a mismatch at each entry
\* with a broken link, and returns false instead of raising.
C18_BrokenLinkNotFatal ==
    (/\ Finished
     /\ vfile.kind = "json"
     /\ vfile.layout = "wrapped"
     /\ WellFormedChain(vfile.data.audit_log))
        => /\ vpc = "returned"
           /\ Len(vout) = Len(vlog.entries)
           /\ MismatchAt = BrokenLinks(vlog.entries)
           /\ BrokenLinks(vlog.entries) # {} => ~verified

\* A run over three entries of which the second and the third have a broken
\* link: both are reported and the verdict is false.
C18_Witness ==
    /\ vpc = "returned"
    /\ vmut.kind = "previous_hash_from"
    /\ MismatchAt = {1, 2}
    /\ ~verified

\* C19 as stated: every malformed input is reported by load_audit_log and
\* the run aborts before any per-entry result is produced.
C19_MalformedAbortsAtLoad ==
    vpc = "raised" => (verr.at = "load_audit_log" /\ vout = <<>>)

----------------------------------------------------------------------------
(* PublicAuditInterface (public_interface.py) over an AuditTrail           *)

\* A log of at most one record (a limit of 0 after the append).
\* _log_access: append the record, then keep the last MaxAccessLog records
\* (10000 in the source).
_log_access(log, timestamp, access_type, description) ==
    LET appended == Append(log, [timestamp |-> timestamp,
                                 access_type |-> access_type,
                                 description |-> description])
    IN  IF Len(appended) > MaxAccessLog
        THEN SubSeq(appended, Len(appended) - MaxAccessLog + 1, Len(appended))
        ELSE appended

\* d[key] = value on a dict
SetKey(d, key, value) ==
    [k \in DOMAIN d \cup {key} |-> IF k = key THEN value ELSE d[k]]

\* The filters arguments of the query_public_events calls the model makes;
\* the empty dict stands for None as well (both are false to "filters or {}").
PublicFilterArgs ==
    { <<>>,
      [sensitivity |-> "internal"],
      [actor |-> "a1", sensitivity |-> "restricted"] }

\* A query that keeps a sensitivity the caller asked for
\* (public_filters.setdefault("sensitivity", "public")).
PublicFilters_setdefault(filters) ==
    IF "sensitivity" \in DOMAIN filters THEN filters
    ELSE SetKey(filters, "sensitivity", "public")

\* public_filters = filters or {}; public_filters["sensitivity"] = "public"
PublicFilters(filters) == SetKey(filters, "sensitivity", "public")

\* query_public_events(filters).  A non-empty filters dict is the very
\* object that is changed and shown as filters_applied.
QueryPublicEvents ==
    /\ \E filters \in PublicFilterArgs, t1 \in now..MaxTime :
         \E t2 \in t1..MaxTime :
           LET public_filters == PublicFilters(filters)
               shown == IF filters = <<>> THEN <<>> ELSE public_filters
               events == [timestamp |-> t1,
                          filters_applied |-> shown,
                          events |-> query_events(audit_log, public_filters, None, None)]
           IN  /\ ret' = [op |-> "query_public_events", filters |-> filters,
                          value |-> events]
               /\ access_log' = _log_access(access_log, t2, "PUBLIC_EVENTS", shown)
               /\ now' = t2
    /\ UNCHANGED <<audit_log, event_index, chain_integrity, tampered, cvars, vvars,
                   short_term, long_term, resonance_map>>

\* The appends that fill the trail behind the interface: one entry of each
\* sensitivity.
PublicCalls ==
    { <<SYSTEM_INIT, "d1", "a1", None, "public">>,
      <<ETHICAL_DECISION, "d2", "a2", None, "internal">>,
      <<PROOF_VERIFICATION, "d3", "a1", None, "restricted">> }

LogPublicEvent == LogEventOf(PublicCalls)

NextPublic ==
    \/ LogPublicEvent
    \/ QueryPublicEvents

SpecPublic == Init /\ [][NextPublic]_vars

\* C29: query_public_events returns only entries whose sensitivity is
\* "public", whatever filters the caller supplies, and each call appends
\* exactly one record to access_log (the oldest record leaving a full log).
C29_PublicQueryOnlyPublic ==
    [][/\ ret'.op = "query_public_events"
            => \A k \in 1..Len(ret'.value.events) :
                  ret'.value.events[k].sensitivity = "public"
       /\ audit_log' # audit_log => access_log' = access_log
       /\ audit_log' = audit_log
            => \E record \in {access_log'[k] : k \in 1..Len(access_log')} :
                  /\ record.access_type = "PUBLIC_EVENTS"
                  /\ access_log' = (IF Len(access_log) < MaxAccessLog
                                    THEN Append(access_log, record)
                                    ELSE Append(Tail(access_log), record))]_vars

\* A query that asked for the internal entries of a log that holds public,
\* internal and restricted ones.
C29_Witness ==
    /\ ret.op = "query_public_events"
    /\ ret.filters = [sensitivity |-> "internal"]
    /\ \E i \in 1..Len(audit_log) : audit_log[i].sensitivity = "internal"
    /\ \E i \in 1..Len(audit_log) : audit_log[i].sensitivity = "restricted"
    /\ Len(ret.value.events) = 1
    /\ Len(access_log) = MaxAccessLog

-----------------------------------------------------------------------------
(* MemoryKernel (src/core/memory/memory_kernel.py)                         *)
(* Resonance is counted in tenths: recall adds 0.1, promotion needs more   *)
(* than 0.8. An entry is one object; the entry that promotion puts into    *)
(* long_term is the object that stays in short_term. The entry's own       *)
(* timestamp, a second reading of the clock that no operation of the       *)
(* kernel reads again, is left out of the entry.                           *)

\* memory_capacity["short_term"], 1000 in the source, scaled down.
MaxShortTerm == 2

\* The slice [-10:] of the entries that promotion looks at.
PromoteWindow == 10

\* The score above which an entry is promoted (0.8), in tenths.
PromoteAbove == 8

\* The delta of one recall (0.1), in tenths.
RecallDelta == 1

\* The resonance_score a new entry is given (0.5), in tenths.
InitialResonance == 5

\* The recalls of all identifiers together are counted up to this number.
MaxResonance == 9

MemoryData == {"x", "y"}

\* The (data, memory_type) arguments of store
StoreArgs == {<<"x", "short_term">>, <<"y", "short_term">>, <<"y", "long_term">>}

\* hexdigest()[:16] of f"{content}:{timestamp}"
_generate_memory_id(data, timestamp) == sha256(<<data, ":", timestamp>>)

MemoryIds == {_generate_memory_id(d, t) : d \in MemoryData, t \in Times}

\* resonance_map.get(id, 0)
Score(rmap, id) == IF id \in DOMAIN rmap THEN rmap[id] ELSE 0

\* resonance_map[memory_id] += delta on a defaultdict(float)
_update_resonance(rmap, memory_id, delta) ==
    SetKey(rmap, memory_id, Score(rmap, memory_id) + delta)

RECURSIVE TotalResonance(_)
TotalResonance(rmap) ==
    IF DOMAIN rmap = {} THEN 0
    ELSE LET id == CHOOSE id \in DOMAIN rmap : TRUE
         IN  rmap[id] + TotalResonance([k \in DOMAIN rmap \ {id} |-> rmap[k]])

\* One step of list.sort: the entry goes behind every entry whose key is
\* not greater, so equal keys keep their order.
InsertStable(sorted, entry, rmap) ==
    LET behind == {k \in 1..Len(sorted) :
                     Score(rmap, sorted[k].id) <= Score(rmap, entry.id)}
        at == IF behind = {} THEN 0
              ELSE CHOOSE k \in behind : \A j \in behind : j <= k
    IN  SubSeq(sorted, 1, at) \o <<entry>> \o SubSeq(sorted, at + 1, Len(sorted))

RECURSIVE SortByResonance(_, _)
SortByResonance(entries, rmap) ==
    IF entries = <<>> THEN <<>>
    ELSE InsertStable(SortByResonance(SubSeq(entries, 1, Len(entries) - 1), rmap),
                      entries[Len(entries)], rmap)

\* entries[-n:]
LastN(entries, n) ==
    IF Len(entries) <= n THEN entries
    ELSE SubSeq(entries, Len(entries) - n + 1, Len(entries))

RECURSIVE Promote(_, _, _)
Promote(long, entries, rmap) ==
    IF entries = <<>> THEN long
    ELSE Promote(IF Score(rmap, entries[1].id) > PromoteAbove
                 THEN SetKey(long, entries[1].id, entries[1])
                 ELSE long,
                 Tail(entries), rmap)

\* _prune_short_term_memory: the new short_term and long_term
PruneShort(short, long, rmap) ==
    IF Len(short) > MaxShortTerm
    THEN LET sorted == SortByResonance(short, rmap)
         IN  LastN(sorted, MaxShortTerm)
    ELSE short

PruneLong(short, long, rmap) ==
    IF Len(short) > MaxShortTerm
    THEN Promote(long, LastN(SortByResonance(short, rmap), PromoteWindow), rmap)
    ELSE long

\* MemoryKernel.store without a context
Store ==
    \E args \in StoreArgs, t1 \in Times :
      LET data == args[1]
          memory_type == args[2]
      IN
        /\ now <= t1
        /\ LET memory_id == _generate_memory_id(data, t1)
               memory_entry == [id |-> memory_id, data |-> data, context |-> <<>>,
                                access_count |-> 0,
                                resonance_score |-> InitialResonance]
           IN  /\ IF memory_type = "short_term"
                  THEN LET appended == Append(short_term, memory_entry)
                       IN  /\ short_term' = PruneShort(appended, long_term, resonance_map)
                           /\ long_term' = PruneLong(appended, long_term, resonance_map)
                  ELSE /\ long_term' = SetKey(long_term, memory_id, memory_entry)
                       /\ short_term' = short_term
               /\ ret' = [op |-> "store", data |-> data, memory_type |-> memory_type,
                          value |-> memory_id]
        /\ now' = t1
        /\ UNCHANGED <<audit_log, event_index, chain_integrity, tampered, cvars, vvars,
                       access_log, resonance_map>>

Recalled(entry) == [entry EXCEPT !.access_count = @ + 1]

\* MemoryKernel.recall
Recall ==
    \E memory_id \in MemoryIds :
        LET found == {k \in 1..Len(short_term) : short_term[k].id = memory_id}
        IN  /\ TotalResonance(resonance_map) < MaxResonance
            /\ IF found # {}
               THEN LET k == CHOOSE k \in found : \A j \in found : k <= j
                        entry == short_term[k]
                    IN  /\ short_term' = [short_term EXCEPT ![k] = Recalled(entry)]
                        /\ long_term' = IF /\ memory_id \in DOMAIN long_term
                                           /\ long_term[memory_id] = entry
                                        THEN SetKey(long_term, memory_id, Recalled(entry))
                                        ELSE long_term
                        /\ resonance_map' = _update_resonance(resonance_map, memory_id, RecallDelta)
                        /\ ret' = [op |-> "recall", memory_id |-> memory_id,
                                   value |-> Some(Recalled(entry))]
               ELSE IF memory_id \in DOMAIN long_term
               THEN LET entry == long_term[memory_id]
                    IN  /\ long_term' = SetKey(long_term, memory_id, Recalled(entry))
                        /\ short_term' = short_term
                        /\ resonance_map' = _update_resonance(resonance_map, memory_id, RecallDelta)
                        /\ ret' = [op |-> "recall", memory_id |-> memory_id,
                                   value |-> Some(Recalled(entry))]
               ELSE /\ ret' = [op |-> "recall", memory_id |-> memory_id, value |-> None]
                    /\ UNCHANGED <<short_term, long_term, resonance_map>>
            /\ UNCHANGED <<audit_log, event_index, chain_integrity, now, tampered,
                           cvars, vvars, access_log>>

NextMemory ==
    \/ Store
    \/ Recall

SpecMemory == Init /\ [][NextMemory]_vars

\* C30: a recall that directly follows store(data, memory_type="short_term")
\* and asks for the identifier that store returned gets an entry whose data
\* is the stored data, also when the short-term memory was full of entries
\* with a resonance above zero.
C30_StoreRecallRoundTrip ==
    [][(/\ ret.op = "store"
        /\ ret.memory_type = "short_term"
        /\ ret'.op = "recall"
        /\ ret'.memory_id = ret.value)
          => /\ ret'.value # None
             /\ ret'.value[1].data = ret.data]_vars

====
